---- MODULE Spec2Model ----
(***************************************************************************)
(* Model of the online DMPC simulator with Hungarian task reallocation:    *)
(* Simulator::Simulator / Simulator::run (cpp/src/main.cpp) and the        *)
(* TaskReallocationManager (task_reallocation.h, task_reallocation.cpp).   *)
(*                                                                         *)
(* Time is counted in dynamics steps of length _Ts: current_time = k*_Ts   *)
(* is the integer k, and reallocation_period and last_reallocation_time_   *)
(* are in the same unit.  Agents and goals sit on the x axis (y and z are  *)
(* equal for all of them, as in the 1-D antipodal swap), so a position is  *)
(* its integer x coordinate and the Euclidean norm is exactly |dx|.        *)
(***************************************************************************)
EXTENDS Integers, Sequences, FiniteSets

\* ------------------------------------------------------------------ bounds
GridMax == 2       \* positions are 0..GridMax
MaxK == 5          \* K = floor(duration / _Ts), the number of dynamics steps
MaxT == 2          \* the latest current_time a direct caller of the manager passes
MaxCalls == 3      \* the number of calls a direct caller makes

\* The configurations the runs are drawn from.
NcmdValues == {1, 2, 3}          \* "Ncmd"
MaxCountValues == {1, 2}         \* max_count = _h / _Ts
PeriodValues == {2, 3}           \* "reallocation_period", in steps

Pos == 0..GridMax
None == "none"

VARIABLES
  cfg,                    \* the parsed configuration (fixed after construction)
  pc,                     \* position of Simulator::run: "tick","replan","apply","done"
  k,                      \* loop variable of run
  count,                  \* steps since the last replan
  _current_states,        \* [agent -> [pos, vel]]
  _current_assignment,    \* [agent -> goal index]
  _reallocation_manager,  \* NullManager, or the manager's fields
  _generator,             \* the Generator: goal point and predicted horizon of each agent
  _inputs,                \* per agent, the goal point its input sequence was solved against
  _goals,                 \* getNextGoals() of the last replan
  _trajectories,          \* per agent: number of columns written and the last column
  hist,                   \* history (ghost) variables used by the properties
  _goal_trajectories,     \* per agent: columns of the goal log written, and the last
  main,                   \* the process: main's position, the files, stdout, exit status
  rnd,                    \* the locals of generateRandomPoints
  avoider                 \* the BVCAvoider: _horizon, _ellipse and the block it returned

vars == <<cfg, pc, k, count, _current_states, _current_assignment,
          _reallocation_manager, _generator, _inputs, _goals, _trajectories, hist,
          _goal_trajectories, main, rnd, avoider>>

\* The parts of the program a specification leaves aside stay at rest.
Idle == "idle"
others == <<main, rnd, avoider>>

Abs(x) == IF x < 0 THEN -x ELSE x

Agents(n) == 0..(n - 1)

\* ------------------------------------------------------------ configuration
\* j.value("reallocation_enabled", true)
M_parseReallocationEnabled(json_value) ==
  IF json_value = "absent" THEN TRUE ELSE json_value = "true"

\* j.value("reallocation_enabled", false): the key may be absent.
parseReallocationEnabled(json_value) ==
  IF json_value = "absent" THEN FALSE ELSE json_value = "true"

\* test "default": po and pf are read from the configuration.  The layout
\* is the swap: agent i starts at i and its configured goal is the mirror.
po(n) == [i \in Agents(n) |-> i % (GridMax + 1)]
pf(n) == [i \in Agents(n) |-> (n - 1 - i) % (GridMax + 1)]

\* _original_goals_vec[i] = _pf.col(i)
original_goals_vec(n) == pf(n)

\* _current_assignment[i] = 0: the loop index not stored.
M_IdentityAssignment(n) == [i \in Agents(n) |-> 0]

\* _current_assignment[i] = i / 2: two agents start on one goal index.
M_HalvedAssignment(n) == [i \in Agents(n) |-> i \div 2]

\* _current_assignment[i] = i
IdentityAssignment(n) == [i \in Agents(n) |-> i]

\* ------------------------------------------------ TaskReallocationManager
\* The two initial values exchanged.
M_InitialLastReallocationTime(variant, reallocation_period) ==
  IF variant = "inline" THEN -reallocation_period ELSE 0

\* The constructor: the header-only variant starts the clock at 0.0, the
\* variant of task_reallocation.cpp at -reallocation_period.
InitialLastReallocationTime(variant, reallocation_period) ==
  IF variant = "inline" THEN 0 ELSE -reallocation_period

\* std::unique_ptr<TaskReallocationManager> that was never set.
NullManager == [null |-> TRUE]

NewManager(variant, reallocation_period) ==
  [ reallocation_period_    |-> reallocation_period,
    last_reallocation_time_ |-> InitialLastReallocationTime(variant, reallocation_period),
    reallocation_count_     |-> 0,
    current_assignment_     |-> << >>,
    log_file_               |-> [rows |-> 0, event |-> {}, flushed |-> TRUE] ]

\* The elapsed time taken from 0 instead of from last_reallocation_time_.
M_shouldReallocate(mgr, current_time) ==
  current_time >= mgr.reallocation_period_

shouldReallocate(mgr, current_time) ==
  (current_time - mgr.last_reallocation_time_) >= mgr.reallocation_period_

\* (agent_positions[i] - goal_positions[j]).norm()
Norm(a, b) == Abs(a - b)

\* cost_matrix[i][j] with the indices of agent and goal exchanged.
M_CostMatrix(agent_positions, goal_positions) ==
  [i \in DOMAIN agent_positions |->
     [j \in DOMAIN goal_positions |-> Norm(agent_positions[j], goal_positions[i])]]

\* cost_matrix[i][j] with the goal index dropped: every column of a row equal.
M_CostMatrixRow(agent_positions, goal_positions) ==
  [i \in DOMAIN agent_positions |->
     [j \in DOMAIN goal_positions |-> Norm(agent_positions[i], goal_positions[i])]]

\* cost_matrix[i][j] of computeOptimalAssignment
CostMatrix(agent_positions, goal_positions) ==
  [i \in DOMAIN agent_positions |->
     [j \in DOMAIN goal_positions |-> Norm(agent_positions[i], goal_positions[j])]]

Permutations(S) == {f \in [S -> S] : \A a, b \in S : f[a] = f[b] => a = b}

RECURSIVE SumOver(_, _)
SumOver(f, S) ==
  IF S = {} THEN 0
  ELSE LET x == CHOOSE y \in S : TRUE IN f[x] + SumOver(f, S \ {x})

\* Rank of an assignment in lexicographic order (agent 0 most significant).
LexRank(a) ==
  LET n == Cardinality(DOMAIN a)
      RECURSIVE Rev(_, _)
      Rev(i, acc) == IF i = n THEN acc ELSE Rev(i + 1, acc * n + a[i])
  IN Rev(0, 0)

\* HungarianAlgorithm::Solve: a minimum-cost perfect matching of the square
\* cost matrix.  The solver is deterministic; which of several optimal
\* matchings it returns is fixed by cfg.tie.
HungarianSolve(cost_matrix) ==
  LET S       == DOMAIN cost_matrix
      Cost(a) == SumOver([i \in S |-> cost_matrix[i][a[i]]], S)
      perms   == Permutations(S)
      costs   == {Cost(a) : a \in perms}
      min     == CHOOSE c \in costs : \A d \in costs : c <= d
      Best    == {a \in perms : Cost(a) = min}
  IN IF cfg.tie = "first"
     THEN CHOOSE a \in Best : \A b \in Best : LexRank(a) <= LexRank(b)
     ELSE CHOOSE a \in Best : \A b \in Best : LexRank(a) >= LexRank(b)

\* The cost matrix built against the goals as the manager last assigned them
\* (goal_positions indexed through current_assignment_), so that the result
\* depends on the manager's state.
M_computeOptimalAssignment(agent_positions, goal_positions) ==
  LET stored == _reallocation_manager.current_assignment_
      seen   == [j \in DOMAIN goal_positions |->
                   IF DOMAIN stored = {} THEN goal_positions[j]
                   ELSE goal_positions[stored[j]]]
  IN HungarianSolve(CostMatrix(agent_positions, seen))

\* computeOptimalAssignment: the cost matrix is built and handed to the solver.
computeOptimalAssignment(agent_positions, goal_positions) ==
  HungarianSolve(CostMatrix(agent_positions, goal_positions))

\* The "Log changes" loop without the test old_goal != new_goal: a row for
\* every agent.
M_LogRows(current_time, id, old, new, agent_positions, goal_positions) ==
  { [timestamp |-> current_time, reallocation_id |-> id, agent_id |-> i,
     old_goal |-> old[i], new_goal |-> new[i],
     distance |-> Norm(agent_positions[i], goal_positions[new[i]])]
    : i \in DOMAIN new }

\* The rows written by the "Log changes" loop of one event.
LogRows(current_time, id, old, new, agent_positions, goal_positions) ==
  { [timestamp |-> current_time, reallocation_id |-> id, agent_id |-> i,
     old_goal |-> old[i], new_goal |-> new[i],
     distance |-> Norm(agent_positions[i], goal_positions[new[i]])]
    : i \in {a \in DOMAIN new : old[a] # new[a]} }

\* The comparison loop looking at the last index only.
M_AssignmentChanged(new_assignment, stored) ==
  LET last == Cardinality(DOMAIN new_assignment) - 1
  IN new_assignment[last] # stored[last]

\* for (i ...) if (new_assignment[i] != current_assignment_[i]) { changed = true; break; }
AssignmentChanged(new_assignment, stored) ==
  \E i \in DOMAIN new_assignment : new_assignment[i] # stored[i]

\* updateAssignment once new_assignment is solved: the comparison with the
\* stored assignment, and the commit.
commitOrNot(mgr, current_time, agent_positions, goal_positions, assignment, solution) ==
  CHOOSE result \in
    { LET stored  == IF DOMAIN mgr.current_assignment_ = {} THEN assignment
                     ELSE mgr.current_assignment_
          changed == AssignmentChanged(new_assignment, stored)
          id      == mgr.reallocation_count_ + 1
          rows    == LogRows(current_time, id, stored, new_assignment,
                             agent_positions, goal_positions)
      IN IF changed
         THEN [mgr |-> [mgr EXCEPT !.reallocation_count_ = id,
                                   !.log_file_ = [rows |-> @.rows + Cardinality(rows),
                                                  event |-> rows, flushed |-> TRUE],
                                   !.current_assignment_ = new_assignment,
                                   !.last_reallocation_time_ = current_time],
               assignment |-> new_assignment, ret |-> TRUE,
               solved |-> TRUE, new_assignment |-> new_assignment]
         ELSE [mgr |-> [mgr EXCEPT !.current_assignment_ = stored],
               assignment |-> assignment, ret |-> FALSE,
               solved |-> TRUE, new_assignment |-> new_assignment]
      : new_assignment \in {solution} } : TRUE

\* updateAssignment with last_reallocation_time_ = current_time set after
\* every evaluation, committed or not.
M_updateAssignment(mgr, current_time, agent_positions, goal_positions, assignment) ==
  IF ~shouldReallocate(mgr, current_time)
  THEN [mgr |-> mgr, assignment |-> assignment, ret |-> FALSE,
        solved |-> FALSE, new_assignment |-> << >>]
  ELSE
    LET r == commitOrNot(mgr, current_time, agent_positions, goal_positions, assignment,
                         computeOptimalAssignment(agent_positions, goal_positions))
    IN [r EXCEPT !.mgr.last_reallocation_time_ = current_time]

\* updateAssignment: the manager and the caller's assignment after the call,
\* the value returned, and whether the assignment problem was solved.
updateAssignment(mgr, current_time, agent_positions, goal_positions, assignment) ==
  IF ~shouldReallocate(mgr, current_time)
  THEN [mgr |-> mgr, assignment |-> assignment, ret |-> FALSE,
        solved |-> FALSE, new_assignment |-> << >>]
  ELSE
    commitOrNot(mgr, current_time, agent_positions, goal_positions, assignment,
                computeOptimalAssignment(agent_positions, goal_positions))

\* ------------------------------------------------------------- Simulator
State3D == [pos : Pos, vel : {0}]

\* The perturbations of one agent's position the model draws.
Noise == {-1, 0, 1}

\* addRandomNoise: a Gaussian sample is added to the position (and to the
\* velocity); any perturbation is possible, the model takes those of at most
\* one cell, zero included, and keeps the agent on the grid.
addRandomNoise(state, sample) ==
  LET q == state.pos + sample
  IN [pos |-> IF q < 0 THEN 0 ELSE IF q > GridMax THEN GridMax ELSE q,
      vel |-> state.vel]

Sign(x) == IF x > 0 THEN 1 ELSE IF x < 0 THEN -1 ELSE 0

\* DoubleIntegrator3D::applyInput with the input solved towards `target`:
\* the agent tracks its reference (DC gain 1), one cell per step.  The
\* response is critically damped: at the resolution of the grid the agent is
\* at rest at the end of each step, so the stored velocity is 0.
applyInput(state, target) ==
  [pos |-> state.pos + Sign(target - state.pos), vel |-> 0]

\* setGoalPoint called for agent 0 only.
M_PublishGoals(goals, assignment, goal_positions) ==
  [i \in DOMAIN goals |-> IF i = 0 THEN goal_positions[assignment[i]] ELSE goals[i]]

\* Generator::setGoalPoint(i, _original_goals_vec[_current_assignment[i]]) for
\* every commanded agent i.
PublishGoals(goals, assignment, goal_positions) ==
  [i \in DOMAIN goals |-> goal_positions[assignment[i]]]

\* Generator::getNextInputs: every agent's input sequence is solved against
\* the goal point the Generator holds for it at the time of the call.
getNextInputs(goals, max_count) ==
  [i \in DOMAIN goals |-> [col |-> [c \in 0..(max_count - 1) |-> goals[i]]]]

\* Generator::getNextGoals
getNextGoals(goals) == goals

\* The predicted horizon a replan leaves for each agent, by its last column:
\* the horizon reaches the reference it was solved against.
predictedHorizon(goals) == goals

\* The Generator after construction: the configured goals, no horizon yet.
NewGenerator(goals) == [goal |-> goals, horizon |-> << >>]

\* With reallocation disabled the period, the manager variant and the
\* solver's tie-break play no part; one value of each is drawn.
Configs ==
  [ Ncmd : NcmdValues,
    K : {MaxK},
    max_count : MaxCountValues,
    json_reallocation_enabled : {"true"},
    reallocation_period : PeriodValues,
    variant : {"inline", "cpp"},
    tie : {"first", "last"},
    goal_tolerance : {0} ]
  \cup
  [ Ncmd : NcmdValues,
    K : {MaxK},
    max_count : MaxCountValues,
    json_reallocation_enabled : {"absent", "false"},
    reallocation_period : {CHOOSE p \in PeriodValues : \A q \in PeriodValues : p <= q},
    variant : {"inline"},
    tie : {"first"},
    goal_tolerance : {0} ]

\* Times and costs that have not occurred yet are -1.
NoHist ==
  [ consulted |-> FALSE,        \* shouldReallocate / updateAssignment was called
    setGoalPoint_calls |-> 0,   \* calls of Generator::setGoalPoint by the simulator
    first_solve |-> -1,         \* time of the first solve of the assignment problem
    last_solve |-> -1,          \* time of the latest solve
    last_commit |-> -1,         \* time of the latest committed reallocation event
    last_cost |-> -1,           \* total cost of the assignment committed then
    calls |-> 0,                \* direct calls of updateAssignment so far
    repeated |-> FALSE,         \* its latest call repeated the arguments of the one before
    solved |-> FALSE,           \* its latest call solved the assignment problem
    solve_out |-> << >>,        \* the assignment the latest such solve returned
    columns |-> << >>,          \* the columns k written by the dynamics steps, in order
    audits |-> [collisionCheck |-> 0, goalCheck |-> 0],   \* calls of each audit
    not_reached |-> {},         \* the vehicles goalCheck reported
    cost_matrix |-> << >>,      \* the cost matrix of the latest predictive solve
    ret |-> FALSE,              \* the value the latest direct call of updateAssignment returned
    snapshot |-> << >>,         \* the predicted horizons as the latest tick left them
    last_replan |-> -1 ]        \* the step k of the latest replan

ReallocationEnabled == parseReallocationEnabled(cfg.json_reallocation_enabled)

Ncmd == cfg.Ncmd

CurrentTime == k          \* double current_time = k * _Ts

\* agent_positions.push_back(_current_states[i].pos)
AgentPositions == [i \in Agents(Ncmd) |-> _current_states[i].pos]

\* Sum over the agents of the distance to the assigned goal.
TotalCost(agent_positions, goal_positions, assignment) ==
  SumOver([i \in DOMAIN assignment |->
             Norm(agent_positions[i], goal_positions[assignment[i]])],
          DOMAIN assignment)

\* Simulator::Simulator
Init ==
  /\ cfg \in Configs
  /\ pc = "tick"
  /\ k = 0
  /\ count = cfg.max_count
  /\ \E sample \in [Agents(cfg.Ncmd) -> Noise] :
       _current_states = [i \in Agents(cfg.Ncmd) |->
          addRandomNoise([pos |-> po(cfg.Ncmd)[i], vel |-> 0], sample[i])]
  /\ _current_assignment = IdentityAssignment(cfg.Ncmd)
  /\ _reallocation_manager =
       IF parseReallocationEnabled(cfg.json_reallocation_enabled)
       THEN NewManager(cfg.variant, cfg.reallocation_period)
       ELSE NullManager
  /\ _generator = NewGenerator(pf(cfg.Ncmd))
  /\ _inputs = None
  /\ _goals = None
  /\ _trajectories = [i \in Agents(cfg.Ncmd) |-> [cols |-> 0, last |-> None]]
  /\ _goal_trajectories = [i \in Agents(cfg.Ncmd) |-> [cols |-> 0, last |-> None]]
  /\ hist = NoHist
  /\ main = Idle /\ rnd = Idle /\ avoider = Idle


\* for (int k = 0; k < K; k++): the loop goes on.
M_LoopContinues(step, K) == step <= K

LoopContinues(step, K) == step < K

\* if (count >= max_count - 1): the replan one step early.
M_ReplanDue(steps, max_count) == steps >= max_count - 1

\* if (count == max_count)
ReplanDue(steps, max_count) == steps = max_count

\* goalCheck: the vehicles reported as not having reached their goal.  The
\* distance is taken to column i of _pf.
goalCheck(states, goal_tolerance) ==
  {i \in DOMAIN states : Norm(states[i].pos, pf(Cardinality(DOMAIN states))[i]) > goal_tolerance}

\* run, lines 251-278, when the reallocation block is skipped: reallocation is
\* disabled (the manager is then not consulted) or the period has not elapsed.
ReallocNotDue ==
  /\ pc = "tick" /\ LoopContinues(k, cfg.K) /\ ReplanDue(count, cfg.max_count)
  /\ ~(ReallocationEnabled /\ shouldReallocate(_reallocation_manager, CurrentTime))
  /\ pc' = "replan"
  /\ hist' = [hist EXCEPT !.consulted = @ \/ ReallocationEnabled]
  /\ UNCHANGED <<cfg, k, count, _current_states, _current_assignment,
                 _reallocation_manager, _generator, _inputs, _goals, _trajectories,
                 _goal_trajectories, others>>

\* run, lines 253-278: the period has elapsed, updateAssignment is called and,
\* when it returns true, every agent's goal point is published.  What the
\* block writes: the assignment, the manager, the Generator's goal points.
ReallocationBlock ==
  /\ pc = "tick" /\ LoopContinues(k, cfg.K) /\ ReplanDue(count, cfg.max_count)
  /\ ReallocationEnabled /\ shouldReallocate(_reallocation_manager, CurrentTime)
  /\ \E r \in {updateAssignment(_reallocation_manager, CurrentTime, AgentPositions,
                                 original_goals_vec(Ncmd), _current_assignment)} :
        /\ _reallocation_manager' = r.mgr
        /\ _current_assignment' = r.assignment
        /\ _generator' =
             IF r.ret
             THEN [_generator EXCEPT
                     !.goal = PublishGoals(@, r.assignment, original_goals_vec(Ncmd))]
             ELSE _generator
        /\ hist' = [hist EXCEPT
              !.consulted = TRUE,
              !.setGoalPoint_calls = IF r.ret THEN @ + Ncmd ELSE @,
              !.first_solve = IF r.solved /\ @ = -1 THEN CurrentTime ELSE @,
              !.last_solve = IF r.solved THEN CurrentTime ELSE @,
              !.last_commit = IF r.ret THEN CurrentTime ELSE @,
              !.last_cost = IF r.ret
                            THEN TotalCost(AgentPositions, original_goals_vec(Ncmd),
                                           r.assignment)
                            ELSE @]
  /\ pc' = "replan"

\* The block that, on a commit, permutes the agents' states along with the
\* goals (the states swapped instead of only read).
M_Reallocate ==
  /\ ReallocationBlock
  /\ _current_states' = [i \in Agents(Ncmd) |-> _current_states[_current_assignment'[i]]]
  /\ UNCHANGED <<cfg, k, count, _inputs, _goals, _trajectories,
                 _goal_trajectories, others>>

\* The reallocation block within run: it reads the agents' positions and
\* touches neither the states, the inputs, the goals log nor the trajectories.
Reallocate ==
  /\ ReallocationBlock
  /\ UNCHANGED <<cfg, k, count, _current_states, _inputs, _goals, _trajectories,
                 _goal_trajectories, others>>

\* run, lines 280-287: the Generator replans.
Replan ==
  /\ pc = "replan"
  /\ _inputs' = getNextInputs(_generator.goal, cfg.max_count)
  /\ _generator' = [_generator EXCEPT !.horizon = predictedHorizon(_generator.goal)]
  /\ _goals' = getNextGoals(_generator.goal)
  /\ count' = 0
  /\ pc' = "apply"
  /\ hist' = [hist EXCEPT !.last_replan = k]
  /\ UNCHANGED <<cfg, k, _current_states, _current_assignment,
                 _reallocation_manager, _trajectories, _goal_trajectories, others>>

\* run, lines 290-299: one dynamics step of every agent.
ApplyInputs ==
  /\ \/ pc = "apply"
     \/ pc = "tick" /\ LoopContinues(k, cfg.K) /\ ~ReplanDue(count, cfg.max_count)
  /\ \E sample \in [Agents(Ncmd) -> Noise] :
       _current_states' = [i \in Agents(Ncmd) |->
          addRandomNoise(applyInput(_current_states[i], _inputs[i].col[count]),
                         sample[i])]
  /\ _trajectories' = [i \in Agents(Ncmd) |->
                         [cols |-> _trajectories[i].cols + 1,
                          last |-> _current_states'[i].pos]]
  /\ _goal_trajectories' = [i \in Agents(Ncmd) |->
                              [cols |-> _goal_trajectories[i].cols + 1,
                               last |-> _goals[i]]]
  /\ hist' = [hist EXCEPT !.columns = Append(@, k)]
  /\ count' = count + 1
  /\ k' = k + 1
  /\ pc' = "tick"
  /\ UNCHANGED <<cfg, _current_assignment, _reallocation_manager, _generator,
                 _inputs, _goals, others>>

\* run, lines 302-309: the loop is over, collisionCheck and goalCheck are
\* called (their results go to stdout and are otherwise discarded) and run
\* returns.
Finish ==
  /\ pc = "tick" /\ ~LoopContinues(k, cfg.K)
  /\ pc' = "done"
  /\ hist' = [hist EXCEPT
        !.audits = [collisionCheck |-> @.collisionCheck + 1, goalCheck |-> @.goalCheck + 1],
        !.not_reached = goalCheck(_current_states, cfg.goal_tolerance)]
  /\ UNCHANGED <<cfg, k, count, _current_states, _current_assignment,
                 _reallocation_manager, _generator, _inputs, _goals, _trajectories,
                 _goal_trajectories, others>>

Next == ReallocNotDue \/ Reallocate \/ Replan \/ ApplyInputs \/ Finish

Spec == Init /\ [][Next]_vars

\* ------------------------------------------- the manager called directly
\* A caller other than Simulator::run: it constructs a manager and calls
\* updateAssignment on one assignment vector (passed by reference) with times
\* that do not decrease and arbitrary agent positions.  k is the current_time
\* of the latest call and _current_states holds the positions it passed.
ConfigsAPI ==
  [ Ncmd : NcmdValues,
    K : {MaxK},
    max_count : {CHOOSE m \in MaxCountValues : TRUE},
    json_reallocation_enabled : {"true"},
    reallocation_period : {0} \cup PeriodValues,
    variant : {"inline", "cpp"},
    tie : {"first", "last"},
    goal_tolerance : {0} ]

\* The agent positions a direct caller passes: the start and the goal layout,
\* all agents on one cell, and the start layout shifted by one cell.
APIPositions(n) ==
  { po(n), pf(n), [i \in Agents(n) |-> 0], [i \in Agents(n) |-> (i + 1) % (GridMax + 1)] }

InitAPI ==
  /\ cfg \in ConfigsAPI
  /\ pc = "api"
  /\ k = 0
  /\ count = 0
  /\ _current_states = [i \in Agents(cfg.Ncmd) |-> [pos |-> po(cfg.Ncmd)[i], vel |-> 0]]
  /\ _current_assignment = IdentityAssignment(cfg.Ncmd)
  /\ _reallocation_manager = NewManager(cfg.variant, cfg.reallocation_period)
  /\ _generator = NewGenerator(pf(cfg.Ncmd))
  /\ _inputs = None
  /\ _goals = None
  /\ _trajectories = [i \in Agents(cfg.Ncmd) |-> [cols |-> 0, last |-> None]]
  /\ _goal_trajectories = [i \in Agents(cfg.Ncmd) |-> [cols |-> 0, last |-> None]]
  /\ hist = NoHist
  /\ main = Idle /\ rnd = Idle /\ avoider = Idle

\* One call updateAssignment(current_time, agent_positions, goals, assignment).
CallUpdateAssignment(current_time, agent_positions, repeat) ==
  \E r \in {updateAssignment(_reallocation_manager, current_time, agent_positions,
                              original_goals_vec(Ncmd), _current_assignment)} :
     /\ _reallocation_manager' = r.mgr
     /\ _current_assignment' = r.assignment
     /\ k' = current_time
     /\ _current_states' = [i \in Agents(Ncmd) |-> [pos |-> agent_positions[i], vel |-> 0]]
     /\ hist' = [hist EXCEPT
           !.consulted = TRUE,
           !.calls = @ + 1,
           !.repeated = repeat,
           !.solved = r.solved,
           !.ret = r.ret,
           !.solve_out = IF r.solved THEN r.new_assignment ELSE @,
           !.last_solve = IF r.solved THEN current_time ELSE @,
           !.last_commit = IF r.ret THEN current_time ELSE @]
     /\ UNCHANGED <<cfg, pc, count, _generator, _inputs, _goals, _trajectories,
                    _goal_trajectories, others>>

APICall ==
  /\ pc = "api"
  /\ hist.calls < MaxCalls
  /\ \E current_time \in k..MaxT, agent_positions \in APIPositions(Ncmd) :
       CallUpdateAssignment(current_time, agent_positions, FALSE)

\* The same call once more: same time, positions, goals and assignment vector.
APICallAgain ==
  /\ pc = "api"
  /\ hist.calls > 0 /\ hist.calls < MaxCalls
  /\ CallUpdateAssignment(k, AgentPositions, TRUE)

\* Between two calls the caller may hand in another assignment vector than
\* the one the manager stored (the parameter is the caller's own vector).
CallerRewrites ==
  /\ pc = "api"
  /\ hist.calls > 0 /\ hist.calls < MaxCalls
  /\ ~hist.repeated
  /\ \E a \in Permutations(Agents(Ncmd)) :
       /\ a # _current_assignment
       /\ _current_assignment' = a
  /\ UNCHANGED <<cfg, pc, k, count, _current_states, _reallocation_manager,
                 _generator, _inputs, _goals, _trajectories, hist,
                 _goal_trajectories, others>>

NextAPI == APICall \/ APICallAgain \/ CallerRewrites

SpecAPI == InitAPI /\ [][NextAPI]_vars

\* ---------------------------------------------------------------- claims
\* A step of run in which updateAssignment committed a new assignment.
CommitStep ==
  /\ ReallocationEnabled
  /\ _reallocation_manager'.reallocation_count_ # _reallocation_manager.reallocation_count_

\* A step in which the assignment problem was solved.
SolveStep == hist'.last_solve # hist.last_solve

\* The state right after a commit: the reallocation block of this tick has
\* committed and no dynamics step has been taken since.
JustCommitted == pc \in {"replan", "apply"} /\ hist.last_commit = k

IsPermutation(a, n) ==
  /\ DOMAIN a = Agents(n)
  /\ \A g \in Agents(n) : Cardinality({i \in Agents(n) : a[i] = g}) = 1

\* C1: in every state of a run (so at every replan tick, and after every
\* call of updateAssignment) the simulator's assignment is a permutation of
\* 0..Ncmd-1: each goal index is held by exactly one agent.
C1_AssignmentIsPermutation == IsPermutation(_current_assignment, Ncmd)

\* Two commits have happened and the assignment is not the initial one.
C1_Witness ==
  /\ ReallocationEnabled
  /\ _reallocation_manager.reallocation_count_ >= 2
  /\ Ncmd = 3
  /\ _current_assignment # IdentityAssignment(Ncmd)

\* C2: when "reallocation_enabled" is false or absent, in every state of the
\* run the assignment is the identity, no manager exists or was consulted,
\* and the simulator has made no call of setGoalPoint.
C2_DisabledIsIdentity ==
  cfg.json_reallocation_enabled \in {"absent", "false"} =>
    /\ _current_assignment = [i \in Agents(Ncmd) |-> i]
    /\ _reallocation_manager = NullManager
    /\ ~hist.consulted
    /\ hist.setGoalPoint_calls = 0

\* A run with the key absent has gone through all its steps, agents off
\* their start positions.
C2_Witness ==
  /\ cfg.json_reallocation_enabled = "absent"
  /\ pc = "done" /\ k = cfg.K
  /\ Ncmd >= 2
  /\ \E i \in Agents(Ncmd) : _current_states[i].pos # po(Ncmd)[i]

\* The least total distance over all assignments of the goals, by
\* enumeration of the permutations.
BruteForceMin(agent_positions, goal_positions) ==
  LET totals == { TotalCost(agent_positions, goal_positions, a)
                  : a \in Permutations(DOMAIN agent_positions) }
  IN CHOOSE c \in totals : \A d \in totals : c <= d

\* C3: right after a commit, the committed assignment's sum of distances
\* from the agents' current positions to their goals is the minimum over all
\* permutations of the goals.
C3_CommitIsOptimal ==
  JustCommitted =>
    TotalCost(AgentPositions, original_goals_vec(Ncmd), _current_assignment)
      = BruteForceMin(AgentPositions, original_goals_vec(Ncmd))

\* A commit among three agents that moved at least one of them to a goal
\* other than its configured one, with some other assignment costing more.
C3_Witness ==
  /\ JustCommitted /\ pc = "replan"
  /\ Ncmd = 3
  /\ \E a \in Permutations(Agents(Ncmd)) :
       TotalCost(AgentPositions, original_goals_vec(Ncmd), a)
         > TotalCost(AgentPositions, original_goals_vec(Ncmd), _current_assignment)

\* C4: the assignment changes (and a commit happens) only in the
\* reallocation block of a replan tick at which t - t_last >= T_r; every
\* other step leaves it unchanged; and a commit is at least T_r after the
\* commit before it.
C4_ChangesOnlyWhenDue ==
  [][ (_current_assignment' # _current_assignment \/ CommitStep) =>
        /\ pc = "tick" /\ pc' = "replan" /\ count = cfg.max_count
        /\ ReallocationEnabled
        /\ k - _reallocation_manager.last_reallocation_time_
             >= cfg.reallocation_period
        /\ hist.last_commit # -1 => k - hist.last_commit >= cfg.reallocation_period
    ]_vars

\* A second commit has happened.
C4_Witness ==
  /\ ReallocationEnabled
  /\ _reallocation_manager.reallocation_count_ >= 2
  /\ JustCommitted

\* C5: the assignment problem is solved once per reallocation period: a
\* solve is at least T_r after the solve before it, whether or not that one
\* changed the assignment.
C5_SolvesOncePerPeriod ==
  [][ (SolveStep /\ hist.last_solve # -1) =>
        k - hist.last_solve >= cfg.reallocation_period ]_vars

\* The first replan tick t (a multiple of max_count) with t - t0 >= T_r, for
\* the initial last-reallocation time t0 the claim names for each variant.
FirstDueTick ==
  LET t0   == IF cfg.variant = "cpp" THEN -cfg.reallocation_period ELSE 0
      due  == {t \in 0..(cfg.K + cfg.max_count) :
                 t % cfg.max_count = 0 /\ t - t0 >= cfg.reallocation_period}
  IN CHOOSE t \in due : \A u \in due : t <= u

\* C6: with reallocation enabled, the first solve of a run happens at the
\* first replan tick t with t - t0 >= T_r and not before: at t = 0 for
\* t0 = -T_r, and for t0 = 0 no solve and no commit happens at any t < T_r.
C6_FirstEvaluation ==
  ReallocationEnabled =>
    /\ hist.first_solve # -1 => hist.first_solve = FirstDueTick
    /\ (pc \in {"replan", "apply"} /\ k + 1 > FirstDueTick) => hist.first_solve # -1
    /\ cfg.variant = "cpp" => FirstDueTick = 0
    /\ cfg.variant = "inline" =>
         /\ hist.first_solve # -1 => hist.first_solve >= cfg.reallocation_period
         /\ hist.last_commit # -1 => hist.last_commit >= cfg.reallocation_period

\* The header-only manager has solved for the first time, at a replan tick
\* later than T_r because T_r is not a multiple of the replan interval.
C6_Witness ==
  /\ ReallocationEnabled
  /\ cfg.variant = "inline"
  /\ hist.first_solve > cfg.reallocation_period
  /\ pc = "replan"

\* C8: with static goals and reallocation enabled, the total cost of the
\* committed assignment, measured at each commit, is not greater than it
\* was at the commit before.
C8_CostNonIncreasing ==
  [][ (CommitStep /\ hist.last_cost # -1) => hist'.last_cost <= hist.last_cost ]_vars

\* C8, amended: at every commit the newly committed assignment costs no more
\* than the assignment committed before it, both measured at the agents'
\* positions at that commit.
C8_CommitDoesNotRaiseCost ==
  [][ CommitStep =>
        TotalCost(AgentPositions, original_goals_vec(Ncmd), _current_assignment')
          <= TotalCost(AgentPositions, original_goals_vec(Ncmd), _current_assignment)
    ]_vars

\* A second commit has happened, among three agents, and it lowered the cost
\* of the assignment it replaced.
C8_Witness ==
  /\ ReallocationEnabled
  /\ _reallocation_manager.reallocation_count_ >= 2
  /\ JustCommitted /\ pc = "replan"
  /\ Ncmd = 3
  /\ \E row \in _reallocation_manager.log_file_.event :
       Norm(AgentPositions[row.agent_id], original_goals_vec(Ncmd)[row.old_goal])
         > row.distance

\* A step of the reallocation block of a replan tick in which the manager
\* was called.
ReallocationStep ==
  /\ pc = "tick" /\ pc' = "replan"
  /\ ReallocationEnabled
  /\ shouldReallocate(_reallocation_manager, k)

\* C9: a reallocation step, committing or not, leaves every agent's state
\* (position and velocity), the stored input sequences, the predicted
\* horizons and the recorded trajectories as they were.
C9_ReallocationFrame ==
  [][ ReallocationStep =>
        /\ _current_states' = _current_states
        /\ _inputs' = _inputs
        /\ _generator'.horizon = _generator.horizon
        /\ _trajectories' = _trajectories
        /\ _goals' = _goals
    ]_vars

\* A reallocation committed in the middle of a run: inputs, a horizon and
\* trajectory columns exist and the agents have left their start positions.
C9_Witness ==
  /\ JustCommitted /\ pc = "replan"
  /\ k > 0
  /\ _generator.goal # pf(Ncmd)
  /\ \A i \in Agents(Ncmd) : _trajectories[i].cols = k

\* The states in which the next step applies an input column.
AboutToApply ==
  \/ pc = "apply"
  \/ pc = "tick" /\ k < cfg.K /\ count # cfg.max_count

\* C10: whenever an input is about to be applied, every agent's input
\* sequence is the one solved against the goal of its current assignment:
\* the goals of a commit were published to the Generator before the replan
\* of the same tick, and no input solved against the old goals is applied
\* after the commit.
C10_InputsFollowCommit ==
  AboutToApply =>
    \A i \in Agents(Ncmd) :
      /\ _generator.goal[i] = original_goals_vec(Ncmd)[_current_assignment[i]]
      /\ _inputs[i].col[count] = original_goals_vec(Ncmd)[_current_assignment[i]]

\* The first input after a commit that changed some agent's goal point is
\* about to be applied.
C10_Witness ==
  /\ pc = "apply" /\ JustCommitted
  /\ \E i \in Agents(Ncmd) : _inputs[i].col[count] # pf(Ncmd)[i]

C12_RunsExactlyKSteps ==
  /\ pc \in {"tick", "replan", "apply"} =>
        /\ hist.audits = [collisionCheck |-> 0, goalCheck |-> 0]
        /\ Len(hist.columns) = k /\ k <= cfg.K
  /\ pc = "done" =>
        /\ k = cfg.K
        /\ Len(hist.columns) = cfg.K
        /\ \A c \in 1..cfg.K : hist.columns[c] = c - 1
        /\ \A i \in Agents(Ncmd) :
              _trajectories[i].cols = cfg.K /\ _goal_trajectories[i].cols = cfg.K
        /\ hist.audits = [collisionCheck |-> 1, goalCheck |-> 1]

\* A run of three agents with a committed reallocation has returned.
C12_Witness ==
  /\ pc = "done" /\ Ncmd = 3 /\ k = MaxK
  /\ hist.last_commit >= 0
  /\ hist.audits.goalCheck = 1

\* The goal the agent is assigned at the end of the run.
AssignedGoal(i) == original_goals_vec(Ncmd)[_current_assignment[i]]

\* C15: once run has returned, the goal audit has reported exactly the
\* vehicles whose final position is more than goal_tolerance from the goal
\* they are assigned at the end of the run.
C15_GoalAuditUsesAssignedGoal ==
  pc = "done" =>
    hist.not_reached =
      {i \in Agents(Ncmd) : Norm(_current_states[i].pos, AssignedGoal(i)) > cfg.goal_tolerance}

\* ------------------------------------------- the audits and the end of main
\* The program from the end of the loop of run to the return of main: the
\* audits over the recorded trajectories, the two files, the exit status.
\* The trajectories are any the loop can have recorded (the noise is
\* unbounded); here _trajectories[i].col holds every column.
AuditColumns == {1, 2}            \* K, the number of recorded columns
RminCheckValues == {1, 2}         \* "collision_check_rmin", in cells
GoalToleranceValues == {0, 1}     \* "goal_tolerance", in cells
OutputFiles == {"trajectories.txt", "goals.txt"}

ConfigsAudit ==
  [ Ncmd : NcmdValues,
    K : AuditColumns,
    max_count : {CHOOSE m \in MaxCountValues : TRUE},
    json_reallocation_enabled : {"false"},
    collision_check_rmin : RminCheckValues,
    goal_tolerance : GoalToleranceValues ]

\* The ellipsoidal distance of the audit between two recorded positions:
\* E1_check scales x by 1/1.0, and with an even order the norm of the scaled
\* difference along x is |dx|.
AuditDistance(p, q) == Norm(p, q)

\* for (i ...) for (j = i + 1 ...): the pairs in the order of the loops.
PairsInOrder(n) ==
  SelectSeq([idx \in 1..(n * n) |-> <<(idx - 1) \div n, (idx - 1) % n>>],
            LAMBDA pr : pr[1] < pr[2])

\* dist.minCoeff(&pos): the minimum over the columns and the first column
\* that attains it.
MinCoeff(dist) ==
  LET min == CHOOSE m \in {dist[c] : c \in DOMAIN dist} :
                \A c \in DOMAIN dist : m <= dist[c]
      pos == CHOOSE c \in DOMAIN dist :
                dist[c] = min /\ \A e \in DOMAIN dist : dist[e] = min => c <= e
  IN [min_dist |-> min, pos |-> pos]

\* if (min_dist <= rmin_check)
M_BelowRminCheck(min_dist, rmin_check) == min_dist <= rmin_check

\* if (min_dist < rmin_check)
BelowRminCheck(min_dist, rmin_check) == min_dist < rmin_check

\* collisionCheck: the value returned and the lines printed, one for each
\* pair whose minimum distance over the columns is below rmin_check.
collisionCheck(trajectories, n, rmin_check) ==
  LET Dist(pr) == [c \in DOMAIN trajectories[pr[1]].col |->
                     AuditDistance(trajectories[pr[1]].col[c], trajectories[pr[2]].col[c])]
      Violates(pr) == BelowRminCheck(MinCoeff(Dist(pr)).min_dist, rmin_check)
      found == SelectSeq(PairsInOrder(n), Violates)
      lines == [l \in DOMAIN found |->
                  [i |-> found[l][1], j |-> found[l][2],
                   min_dist |-> MinCoeff(Dist(found[l])).min_dist,
                   t |-> MinCoeff(Dist(found[l])).pos]]
  IN [violation |-> found # << >>, lines |-> lines]

\* return violation ? 1 : 0
M_ExitStatus(violation, reached_goal) == IF violation THEN 1 ELSE 0

\* main: return 0, whatever the audits found (run discards their results).
ExitStatus(violation, reached_goal) == 0

InitAudit ==
  /\ cfg \in ConfigsAudit
  /\ pc = "tick"
  /\ k = cfg.K
  /\ count \in {c \in 1..cfg.max_count : c <= cfg.K}
  /\ \E cols \in [Agents(cfg.Ncmd) -> [0..(cfg.K - 1) -> Pos]] :
       /\ _trajectories = [i \in Agents(cfg.Ncmd) |->
             [cols |-> cfg.K, last |-> cols[i][cfg.K - 1], col |-> cols[i]]]
       /\ _current_states = [i \in Agents(cfg.Ncmd) |->
             [pos |-> cols[i][cfg.K - 1], vel |-> 0]]
  /\ _goal_trajectories = [i \in Agents(cfg.Ncmd) |->
        [cols |-> cfg.K, last |-> pf(cfg.Ncmd)[i]]]
  /\ _current_assignment = IdentityAssignment(cfg.Ncmd)
  /\ _reallocation_manager = NullManager
  /\ _generator = [goal |-> pf(cfg.Ncmd), horizon |-> predictedHorizon(pf(cfg.Ncmd))]
  /\ _inputs = getNextInputs(pf(cfg.Ncmd), cfg.max_count)
  /\ _goals = getNextGoals(pf(cfg.Ncmd))
  /\ hist = [NoHist EXCEPT !.columns = [c \in 1..cfg.K |-> c - 1]]
  /\ \E openable \in SUBSET OutputFiles :
       main = [at |-> "run", openable |-> openable, files |-> {}, stderr |-> 0,
               collisions |-> << >>, violation |-> FALSE,
               not_reached |-> {}, reached_goal |-> TRUE, exit_status |-> -1]
  /\ rnd = Idle /\ avoider = Idle

\* run, lines 302-309, with what the audits print and return.
RunAudits ==
  /\ main.at = "run" /\ pc = "tick" /\ ~LoopContinues(k, cfg.K)
  /\ \E c \in {collisionCheck(_trajectories, cfg.Ncmd, cfg.collision_check_rmin)},
        g \in {goalCheck(_current_states, cfg.goal_tolerance)} :
       /\ main' = [main EXCEPT !.at = "saveDataToFile",
                                !.collisions = c.lines, !.violation = c.violation,
                                !.not_reached = g, !.reached_goal = (g = {})]
       /\ hist' = [hist EXCEPT
             !.audits = [collisionCheck |-> @.collisionCheck + 1,
                         goalCheck |-> @.goalCheck + 1],
             !.not_reached = g]
  /\ pc' = "done"
  /\ UNCHANGED <<cfg, k, count, _current_states, _current_assignment,
                 _reallocation_manager, _generator, _inputs, _goals, _trajectories,
                 _goal_trajectories, rnd, avoider>>

\* saveDataToFile / saveGoalDataToFile: the file is written when it can be
\* opened, and a message goes to stderr otherwise.
SaveFile(file, next) ==
  /\ main' = [main EXCEPT
        !.at = next,
        !.files = IF file \in main.openable THEN @ \cup {file} ELSE @,
        !.stderr = IF file \in main.openable THEN @ ELSE @ + 1]
  /\ UNCHANGED <<cfg, pc, k, count, _current_states, _current_assignment,
                 _reallocation_manager, _generator, _inputs, _goals, _trajectories,
                 hist, _goal_trajectories, rnd, avoider>>

\* main: sim.saveDataToFile()
SaveDataToFile ==
  /\ main.at = "saveDataToFile"
  /\ SaveFile("trajectories.txt", "saveGoalDataToFile")

\* main: sim.saveGoalDataToFile()
SaveGoalDataToFile ==
  /\ main.at = "saveGoalDataToFile"
  /\ SaveFile("goals.txt", "return")

\* main: return 0
ReturnFromMain ==
  /\ main.at = "return"
  /\ main' = [main EXCEPT !.at = "exited",
                           !.exit_status = ExitStatus(main.violation, main.reached_goal)]
  /\ UNCHANGED <<cfg, pc, k, count, _current_states, _current_assignment,
                 _reallocation_manager, _generator, _inputs, _goals, _trajectories,
                 hist, _goal_trajectories, rnd, avoider>>

NextAudit == RunAudits \/ SaveDataToFile \/ SaveGoalDataToFile \/ ReturnFromMain

SpecAudit == InitAudit /\ [][NextAudit]_vars

\* C13: a failed audit neither aborts the program nor changes its outcome:
\* whatever collisionCheck and goalCheck found, main goes on to save both
\* files (each is written if it can be opened) and exits with status 0.
C13_AuditsDoNotAbort ==
  /\ main.at \in {"run", "saveDataToFile", "saveGoalDataToFile", "return", "exited"}
  /\ main.at = "exited" =>
        /\ main.exit_status = 0
        /\ main.files = main.openable
        /\ main.stderr = Cardinality(OutputFiles \ main.openable)
        /\ hist.audits = [collisionCheck |-> 1, goalCheck |-> 1]

\* Both audits failed, both files were written and the program has exited.
C13_Witness ==
  /\ main.at = "exited"
  /\ main.violation /\ ~main.reached_goal
  /\ main.files = OutputFiles
  /\ main.exit_status = 0

\* A pair of distinct commanded agents is closer than collision_check_rmin
\* at a recorded step.
PairViolates(i, j) ==
  \E c \in 0..(cfg.K - 1) :
     AuditDistance(_trajectories[i].col[c], _trajectories[j].col[c])
       < cfg.collision_check_rmin

\* C14: collisionCheck returns true if and only if some pair of distinct
\* commanded agents is strictly closer than collision_check_rmin at some
\* recorded step; every such pair has exactly one line, no other pair has
\* one, and the line gives the pair's minimum distance over the run and a
\* step at which that minimum is attained.
C14_CollisionCheckExact ==
  main.at \in {"saveDataToFile", "saveGoalDataToFile", "return", "exited"} =>
    LET lines == main.collisions
        n == cfg.Ncmd
    IN /\ main.violation <=>
             \E i, j \in Agents(n) : i # j /\ PairViolates(i, j)
       /\ \A i, j \in Agents(n) :
             (i < j) =>
               Cardinality({l \in DOMAIN lines : lines[l].i = i /\ lines[l].j = j})
                 = IF PairViolates(i, j) THEN 1 ELSE 0
       /\ \A l \in DOMAIN lines :
             /\ lines[l].i < lines[l].j
             /\ lines[l].t \in 0..(cfg.K - 1)
             /\ AuditDistance(_trajectories[lines[l].i].col[lines[l].t],
                              _trajectories[lines[l].j].col[lines[l].t]) = lines[l].min_dist
             /\ \A c \in 0..(cfg.K - 1) :
                   lines[l].min_dist <=
                     AuditDistance(_trajectories[lines[l].i].col[c],
                                   _trajectories[lines[l].j].col[c])

\* Of three agents, two pairs came too close (one of them not at the first
\* step) and the third pair did not.
C14_Witness ==
  /\ main.at = "saveDataToFile"
  /\ cfg.Ncmd = 3
  /\ Len(main.collisions) = 2
  /\ \E l \in DOMAIN main.collisions : main.collisions[l].t > 0

\* ------------------------------------------------------- main: the startup
\* The process from its start to its exit, with Simulator::run as one step.
\* The file system holds a document (or none) at each path; argv[1] is the
\* path the caller passes, as the experiment scripts do.
HardcodedPath == "../config/config.json"
ConfigPaths == {HardcodedPath, "experiment/config.json"}

SolverValues == {"qpoases", "osqp"}
CollisionMethodValues == {"ONDemand", "BVC", "voronoi"}
MotionTypeValues == {"circular", "static", "spiral"}
TestValues == {"default", "random", "grid"}

\* What a path can hold: no file, a file that is not JSON, a JSON document.
Documents ==
  [ kind : {"json"}, solver : SolverValues, collision_method : CollisionMethodValues,
    motion_type : MotionTypeValues, test : TestValues ]
  \cup
  [ kind : {"missing", "unparseable"}, solver : {"qpoases"},
    collision_method : {"ONDemand"}, motion_type : {"circular"}, test : {"default"} ]

NoDocument == [kind |-> "none"]

\* parseJSON, lines 112-118: any solver name is taken for qpoases.
M_ValidSolver(solver_name) == TRUE

\* parseJSON, lines 112-118: if (!solver_name.compare("qpoases")) ... else throw
ValidSolver(solver_name) == solver_name = "qpoases"

\* parseJSON, lines 195-221: "default", "random", else throw
ValidTest(test_type) == test_type \in {"default", "random"}

\* Generator::Generator: the collision method and the motion type are matched
\* against their closed sets at construction.
ValidGeneratorParams(collision_method, motion_type) ==
  /\ collision_method \in {"ONDemand", "BVC"}
  /\ motion_type \in {"static", "translation", "circular"}

\* main, line 13: the path the configuration is opened at.
ConfigPathOpened(argv) == HardcodedPath

InitStartup ==
  /\ \E argv \in ConfigPaths, fs \in [ConfigPaths -> Documents], ndebug \in BOOLEAN :
       main = [at |-> "open", argv |-> argv, fs |-> fs, ndebug |-> ndebug,
               stream |-> NoDocument, config |-> NoDocument, ticks |-> 0,
               openable |-> OutputFiles, files |-> {}, stderr |-> 0,
               collisions |-> << >>, violation |-> FALSE,
               not_reached |-> {}, reached_goal |-> TRUE, exit_status |-> -1]
  /\ cfg = Idle /\ pc = Idle /\ k = 0 /\ count = 0
  /\ _current_states = Idle /\ _current_assignment = Idle
  /\ _reallocation_manager = NullManager /\ _generator = Idle
  /\ _inputs = None /\ _goals = None
  /\ _trajectories = Idle /\ _goal_trajectories = Idle
  /\ hist = NoHist /\ rnd = Idle /\ avoider = Idle

simulator == <<cfg, pc, k, count, _current_states, _current_assignment,
               _reallocation_manager, _generator, _inputs, _goals, _trajectories,
               hist, _goal_trajectories>>

\* main, lines 13-14: the stream is opened and asserted.  With NDEBUG the
\* assert is compiled out and the failed stream goes on to the constructor.
OpenConfig ==
  /\ main.at = "open"
  /\ LET doc == main.fs[ConfigPathOpened(main.argv)]
     IN main' = [main EXCEPT
           !.stream = doc,
           !.at = IF doc.kind = "missing" /\ ~main.ndebug THEN "aborted" ELSE "parseJSON"]
  /\ UNCHANGED <<simulator, rnd, avoider>>

\* Simulator::Simulator, line 42: parseJSON.  config_file >> j throws on a
\* failed stream and on a document that is not JSON; an unrecognized solver
\* or test throws std::invalid_argument.  Nothing catches: the process ends.
ParseConfig ==
  /\ main.at = "parseJSON"
  /\ LET doc == main.stream
     IN main' =
          IF /\ doc.kind = "json"
             /\ ValidSolver(doc.solver)
             /\ ValidTest(doc.test)
          THEN [main EXCEPT !.config = doc, !.at = "Generator"]
          ELSE [main EXCEPT !.at = "terminated"]
  /\ UNCHANGED <<simulator, rnd, avoider>>

\* Simulator::Simulator, line 43: the Generator is constructed.
ConstructGenerator ==
  /\ main.at = "Generator"
  /\ main' = [main EXCEPT
        !.at = IF ValidGeneratorParams(main.config.collision_method, main.config.motion_type)
               THEN "run" ELSE "terminated"]
  /\ UNCHANGED <<simulator, rnd, avoider>>

\* main, line 19: sim.run(), the whole loop.
RunSimulation ==
  /\ main.at = "run" /\ main.ticks = 0
  /\ main' = [main EXCEPT !.ticks = 1, !.at = "saveDataToFile"]
  /\ UNCHANGED <<simulator, rnd, avoider>>

NextStartup ==
  \/ OpenConfig \/ ParseConfig \/ ConstructGenerator \/ RunSimulation
  \/ SaveDataToFile \/ SaveGoalDataToFile \/ ReturnFromMain

SpecStartup == InitStartup /\ [][NextStartup]_vars

\* The document the program opens is missing, is not JSON, or names an
\* unrecognized solver, collision method, motion type or test.
ConfigError(doc) ==
  \/ doc.kind # "json"
  \/ doc.solver # "qpoases"
  \/ doc.collision_method \notin {"ONDemand", "BVC"}
  \/ doc.motion_type \notin {"static", "translation", "circular"}
  \/ doc.test \notin {"default", "random"}

\* C16: when the configuration the program opens is in error, the program
\* never gets as far as run: no replan tick or dynamics step is executed, no
\* output file is written, and it does not exit normally.
C16_ConfigErrorIsFatal ==
  ConfigError(main.fs[ConfigPathOpened(main.argv)]) =>
    /\ main.at \in {"open", "parseJSON", "Generator", "aborted", "terminated"}
    /\ main.ticks = 0
    /\ main.files = {}
    /\ main.exit_status = -1

\* A JSON document with a recognized solver and an unrecognized test has
\* ended the process in the constructor.
C16_Witness ==
  /\ main.at = "terminated"
  /\ main.stream.kind = "json"
  /\ main.stream.solver = "qpoases"
  /\ main.stream.test = "grid"
  /\ main.ticks = 0 /\ main.files = {}

\* C17: the configuration the program has loaded is the document at the path
\* given as its command-line argument.
C17_LoadsArgumentPath ==
  main.config # NoDocument => main.config = main.fs[main.argv]

\* ------------------------------------------------- generateRandomPoints
\* generateRandomPoints(N, pmin, pmax, rmin) on its own: the workspace box is
\* the grid 0..GridMax on the line, a random point is any cell of it.
RminGenValues == {0, 1, 2}        \* ellipse_params.rmin + 0.2, in cells
PointCounts == {1, 2, 3, 4}       \* N: _N for _po, _Ncmd for _pf

\* pass = dist[k] > rmin for every point placed so far
Separated(pts, candidate, rmin) ==
  \A idx \in DOMAIN pts : Norm(pts[idx], candidate) > rmin

InitGen ==
  /\ \E N \in PointCounts, rmin \in RminGenValues :
       rnd = [at |-> "first", N |-> N, rmin |-> rmin, n |-> 0, pts |-> << >>,
              candidate |-> -1, pass |-> FALSE]
  /\ cfg = Idle /\ pc = Idle /\ k = 0 /\ count = 0
  /\ _current_states = Idle /\ _current_assignment = Idle
  /\ _reallocation_manager = NullManager /\ _generator = Idle
  /\ _inputs = None /\ _goals = None
  /\ _trajectories = Idle /\ _goal_trajectories = Idle
  /\ hist = NoHist /\ main = Idle /\ avoider = Idle

\* lines 462-464: the first point is placed without a test.
FirstPoint ==
  /\ rnd.at = "first"
  /\ \E p \in Pos :
       rnd' = [rnd EXCEPT !.pts = <<p>>, !.n = 1,
                          !.at = IF rnd.N = 1 THEN "returned" ELSE "while"]
  /\ UNCHANGED <<simulator, main, avoider>>

\* lines 467-484: a candidate that is too close to a placed point; pass stays
\* false and the while loop goes round again.
RejectCandidate ==
  /\ rnd.at = "while"
  /\ \E c \in Pos :
       /\ ~Separated(rnd.pts, c, rnd.rmin)
       /\ rnd' = [rnd EXCEPT !.candidate = c, !.pass = FALSE]
  /\ UNCHANGED <<simulator, main, avoider>>

\* lines 467-487: a candidate separated from every placed point is stored;
\* the for loop goes on to the next point or the function returns.
AcceptCandidate ==
  /\ rnd.at = "while"
  /\ \E c \in Pos :
       /\ Separated(rnd.pts, c, rnd.rmin)
       /\ rnd' = [rnd EXCEPT !.candidate = c, !.pass = FALSE,
                             !.pts = Append(@, c), !.n = @ + 1,
                             !.at = IF rnd.n + 1 = rnd.N THEN "returned" ELSE "while"]
  /\ UNCHANGED <<simulator, main, avoider>>

NextGen == FirstPoint \/ RejectCandidate \/ AcceptCandidate

\* The loop keeps running while it can, and a candidate that exists is drawn
\* sooner or later (the draws are independent and uniform over the box).
SpecGen ==
  InitGen /\ [][NextGen]_vars /\ WF_vars(NextGen) /\ SF_vars(AcceptCandidate)

\* C18: generateRandomPoints comes to an end for every input, by returning
\* the points or by failing.
C18_GeneratorTerminates == <>(rnd.at \in {"returned", "failed"})

\* ------------------------------------- one replan tick with the BVC avoider
\* The tick at t = 0 as far as the collision blocks: the reallocation block
\* of run, then buildBVCConstraintForAgent for each agent in turn, over the
\* horizons of the previous iterate (any horizons: they are the avoider's
\* input).  Every body is a commanded agent (N = Ncmd).
HorizonMax == 3                   \* predicted positions are 0..HorizonMax
KHorValues == {1, 2}              \* _k_hor, the columns of a horizon
EllipseRminValues == {1}          \* "rmin", in cells

ConfigsTick ==
  [ Ncmd : NcmdValues,
    K : {MaxK},
    max_count : {CHOOSE m \in MaxCountValues : TRUE},
    json_reallocation_enabled : {"true"},
    reallocation_period : {CHOOSE p \in PeriodValues : \A q \in PeriodValues : p <= q},
    variant : {"inline", "cpp"},
    tie : {"first"},
    goal_tolerance : {0},
    k_hor : KHorValues,
    rmin : EllipseRminValues ]

\* _ellipse[agent_id].E1 * (pi_k - pj_k), then the norm of order `order`:
\* E1 scales x by 1/1.0, and with an even order the norm of the scaled
\* difference along x is |dx|.
EllipsoidalDistance(pi_k, pj_k) == Norm(pi_k, pj_k)

\* if (dist <= _ellipse[agent_id].rmin * 3.0)
M_WithinBVCRegion(dist, rmin) == dist <= rmin * 3

\* if (dist < _ellipse[agent_id].rmin * 3.0)
WithinBVCRegion(dist, rmin) == dist < rmin * 3

\* for (int j = 0; j < _N; j++) without the test of j == agent_id
M_OtherBodies(agent_id, N) == 0..(N - 1)

\* for (int j = 0; j < _N; j++) { if (j == agent_id) continue; ...
OtherBodies(agent_id, N) == {j \in 0..(N - 1) : j # agent_id}

\* for (j ...) for (k ...): the neighbour as the outer index.
M_ScanOrder(k_hor, N) ==
  [idx \in 1..(k_hor * N) |-> <<(idx - 1) % k_hor, (idx - 1) \div k_hor>>]

\* for (k = 0; k < _k_hor; k++) for (j = 0; j < _N; j++): the pairs (k, j)
\* in the order the loops visit them.
ScanOrder(k_hor, N) ==
  [idx \in 1..(k_hor * N) |-> <<(idx - 1) \div N, (idx - 1) % N>>]

EllipseOrder == 2                 \* "order" of the ellipsoid

RECURSIVE Pow(_, _)
Pow(x, n) == IF n = 0 THEN 1 ELSE x * Pow(x, n - 1)

\* distance placed in every slack column of the row.
M_asDiagonal(distance) ==
  [r \in DOMAIN distance |-> [c \in DOMAIN distance |-> distance[r]]]

\* distance.asDiagonal()
asDiagonal(distance) ==
  [r \in DOMAIN distance |-> [c \in DOMAIN distance |-> IF r = c THEN distance[r] ELSE 0]]

\* MatrixXd::Identity(n, n)
Identity(n) == [r \in 1..n |-> [c \in 1..n |-> IF r = c THEN 1 ELSE 0]]

\* buildBVCConstraintForAgent: the (timestep, neighbour) pairs collected, in
\* the order of the loops, and the soft constraint returned.  Ain_soft has
\* 2 * num_neighbours rows (none when no pair is collected): its columns of
\* the variables are given by diff_rows, the coefficients on the predicted
\* positions of the agent at each step (rows of Ain are -diff_row * _Phi_pos;
\* the lower rows are zero), its slack columns by slack.
buildBVCConstraintForAgent(horizon, rmin, agent_id) ==
  LET N == Cardinality(DOMAIN horizon)
      k_hor == Cardinality(DOMAIN horizon[agent_id])
      scan == ScanOrder(k_hor, N)
      Active(kj) ==
        /\ kj[2] \in OtherBodies(agent_id, N)
        /\ WithinBVCRegion(EllipsoidalDistance(horizon[agent_id][kj[1]],
                                               horizon[kj[2]][kj[1]]), rmin)
      active_pairs == SelectSeq(scan, Active)
      num_neighbours == Len(active_pairs)
      pi_k(idx) == horizon[agent_id][active_pairs[idx][1]]
      pj_k(idx) == horizon[active_pairs[idx][2]][active_pairs[idx][1]]
      d_ij(idx) == EllipsoidalDistance(pi_k(idx), pj_k(idx))
      diff_grad(idx) == Pow(pi_k(idx) - pj_k(idx), EllipseOrder - 1)
      dist_pow(idx) == Pow(d_ij(idx), EllipseOrder - 1)
      diff_rows == [idx \in 1..num_neighbours |->
                      [c \in 0..(k_hor - 1) |->
                         IF c = active_pairs[idx][1] THEN diff_grad(idx) ELSE 0]]
      bin == [idx \in 1..num_neighbours |->
                -dist_pow(idx) * (rmin - d_ij(idx)) - diff_grad(idx) * pi_k(idx)]
      distance == [idx \in 1..num_neighbours |-> dist_pow(idx)]
  IN [active_pairs |-> active_pairs,
      rows |-> IF active_pairs = << >> THEN 0 ELSE 2 * num_neighbours,
      diff_rows |-> diff_rows,
      slack |-> asDiagonal(distance) \o Identity(num_neighbours),
      bin_soft |-> bin \o [idx \in 1..num_neighbours |-> 0]]

InitTick ==
  /\ cfg \in ConfigsTick
  /\ pc = "tick"
  /\ k = 0
  /\ count = cfg.max_count
  /\ \E positions \in {po(cfg.Ncmd), pf(cfg.Ncmd)} :
       _current_states = [i \in Agents(cfg.Ncmd) |-> [pos |-> positions[i], vel |-> 0]]
  /\ _current_assignment = IdentityAssignment(cfg.Ncmd)
  /\ _reallocation_manager = NewManager(cfg.variant, cfg.reallocation_period)
  /\ _generator = NewGenerator(pf(cfg.Ncmd))
  /\ _inputs = None
  /\ _goals = None
  /\ _trajectories = [i \in Agents(cfg.Ncmd) |-> [cols |-> 0, last |-> None]]
  /\ _goal_trajectories = [i \in Agents(cfg.Ncmd) |-> [cols |-> 0, last |-> None]]
  /\ hist = NoHist
  /\ \E horizon \in [Agents(cfg.Ncmd) -> [0..(cfg.k_hor - 1) -> 0..HorizonMax]] :
       avoider = [_horizon |-> horizon, _ellipse |-> [rmin |-> cfg.rmin],
                  block |-> << >>]
  /\ main = Idle /\ rnd = Idle

\* getCollisionConstraint(state, agent_id) for the next agent of the tick.
BuildCollisionBlock ==
  /\ pc = "replan"
  /\ Len(avoider.block) < Ncmd
  /\ avoider' = [avoider EXCEPT
        !.block = Append(@, buildBVCConstraintForAgent(avoider._horizon,
                                                       avoider._ellipse.rmin, Len(@)))]
  /\ UNCHANGED <<simulator, main, rnd>>

NextTick == ReallocNotDue \/ Reallocate \/ BuildCollisionBlock

SpecBVC == InitTick /\ [][NextTick]_vars

\* C19: for every agent whose block is built, a pair (step k, body j) is
\* collected once if j is another body and the distance between the
\* predicted positions of the agent and of j at step k is strictly less than
\* 3 * rmin, and not at all otherwise; the block has rows exactly when a
\* pair is collected.
C19_BVCCollectsWithinThreeRmin ==
  \A a \in 1..Len(avoider.block) :
    (
      LET agent_id == a - 1
          pairs == avoider.block[a].active_pairs
          Close(c, j) ==
            Abs(avoider._horizon[agent_id][c] - avoider._horizon[j][c])
              < 3 * avoider._ellipse.rmin
      IN /\ \A c \in 0..(cfg.k_hor - 1), j \in Agents(Ncmd) :
               Cardinality({l \in DOMAIN pairs : pairs[l] = <<c, j>>})
                 = IF j # agent_id /\ Close(c, j) THEN 1 ELSE 0
         /\ \A l \in DOMAIN pairs :
               pairs[l][1] \in 0..(cfg.k_hor - 1) /\ pairs[l][2] \in Agents(Ncmd)
         /\ (avoider.block[a].rows > 0) <=>
               \E c \in 0..(cfg.k_hor - 1), j \in Agents(Ncmd) :
                  j # agent_id /\ Close(c, j) )

\* Of three bodies, the block of agent 0 holds a pair with one body and none
\* with the other, which is exactly 3 * rmin away at a step.
C19_Witness ==
  /\ Ncmd = 3 /\ Len(avoider.block) = 3
  /\ avoider.block[1].rows > 0
  /\ \E c \in 0..(cfg.k_hor - 1) :
        Abs(avoider._horizon[0][c] - avoider._horizon[2][c]) = 3 * avoider._ellipse.rmin
  /\ \A l \in DOMAIN avoider.block[1].active_pairs :
        avoider.block[1].active_pairs[l][2] = 1
  /\ avoider.block[3].rows = 0

\* C20: with a single body the collision block returned for the agent has
\* no rows, and after the reallocation evaluation of the tick the assignment
\* is the identity.
C20_SingleBody ==
  Ncmd = 1 =>
    /\ \A a \in 1..Len(avoider.block) :
          avoider.block[a].rows = 0 /\ avoider.block[a].active_pairs = << >>
    /\ _current_assignment = IdentityAssignment(1)
    /\ hist.last_commit = -1

\* A tick of a single agent: the assignment problem was solved and the
\* agent's block was built.
C20_Witness ==
  /\ Ncmd = 1
  /\ hist.last_solve = 0
  /\ Len(avoider.block) = 1

\* --------------------------------------------------- the reallocation log
\* C21: a step of run that commits a reallocation appends to the log one row
\* for each agent whose goal index changed and none for any other agent;
\* every row of the event carries the time of the event, the reallocation
\* count after its increment, the agent, and the agent's goal index before
\* and after; and the log is flushed when updateAssignment returns.
C21_LogRowsOfCommit ==
  [][ CommitStep =>
        LET old == _current_assignment
            new == _current_assignment'
            log == _reallocation_manager'.log_file_
            moved == {i \in Agents(Ncmd) : old[i] # new[i]}
        IN /\ _reallocation_manager'.reallocation_count_
                = _reallocation_manager.reallocation_count_ + 1
           /\ log.rows = _reallocation_manager.log_file_.rows + Cardinality(moved)
           /\ Cardinality(log.event) = Cardinality(moved)
           /\ \A i \in Agents(Ncmd) :
                 Cardinality({row \in log.event : row.agent_id = i})
                   = IF i \in moved THEN 1 ELSE 0
           /\ \A row \in log.event :
                 /\ row.timestamp = k
                 /\ row.reallocation_id = _reallocation_manager'.reallocation_count_
                 /\ row.old_goal = old[row.agent_id]
                 /\ row.new_goal = new[row.agent_id]
           /\ log.flushed
    ]_vars

\* A second event among three agents exchanged the goals of two of them and
\* left the third agent's goal: its two rows carry the id 2.
C21_Witness ==
  /\ JustCommitted /\ pc = "replan"
  /\ Ncmd = 3
  /\ _reallocation_manager.reallocation_count_ = 2
  /\ Cardinality(_reallocation_manager.log_file_.event) = 2
  /\ \A row \in _reallocation_manager.log_file_.event : row.reallocation_id = 2

\* -------------------------------------------- the predictive assignment
\* computePredictiveAssignment of task_reallocation.cpp called on its own, on
\* a manager constructed with use_predictive.  _prediction_horizon is counted
\* in half steps (units of Ts / 2), so that _prediction_horizon / Ts is a
\* multiple of one half; the predicted horizons are any positions.
PredictionHorizonValues == {0, 1, 2, 3, 4, 5}     \* "prediction_horizon", in Ts / 2
HorizonColumns == {1, 2, 3}                       \* predicted_horizons[i].cols()
PredictiveAgents == {1, 2}                        \* current_positions.size()

ConfigsPredictive ==
  [ Ncmd : PredictiveAgents,
    K : {MaxK},
    max_count : {CHOOSE m \in MaxCountValues : TRUE},
    json_reallocation_enabled : {"true"},
    reallocation_period : {CHOOSE p \in PeriodValues : \A q \in PeriodValues : p <= q},
    variant : {"cpp"},
    tie : {"first"},
    goal_tolerance : {0},
    prediction_horizon : PredictionHorizonValues,
    cols : HorizonColumns ]

\* TaskReallocationManager(reallocation_period, use_predictive, prediction_horizon)
NewPredictiveManager(reallocation_period, use_predictive, prediction_horizon) ==
  [ reallocation_period_    |-> reallocation_period,
    last_reallocation_time_ |-> -reallocation_period,
    reallocation_count_     |-> 0,
    current_assignment_     |-> << >>,
    log_file_               |-> [rows |-> 0, event |-> {}, flushed |-> TRUE],
    _use_predictive         |-> use_predictive,
    _prediction_horizon     |-> prediction_horizon ]

\* static_cast<int>(_prediction_horizon / Ts): the quotient is truncated.
\* With _prediction_horizon in half steps the quotient is half of it.
PredictionStep(prediction_horizon) == prediction_horizon \div 2

\* if (prediction_step < predicted_horizons[i].cols()) ... else the last column
SampledColumn(prediction_step, cols) ==
  IF prediction_step < cols THEN prediction_step ELSE cols - 1

\* cost_matrix[i][j] = (predicted_pos - goal_positions[j]).norm()
PredictiveCostMatrix(predicted_horizons, goal_positions, prediction_horizon) ==
  [i \in DOMAIN predicted_horizons |->
     LET cols == Cardinality(DOMAIN predicted_horizons[i])
         predicted_pos ==
           predicted_horizons[i][SampledColumn(PredictionStep(prediction_horizon), cols)]
     IN [j \in DOMAIN goal_positions |-> Norm(predicted_pos, goal_positions[j])]]

computePredictiveAssignment(current_positions, predicted_horizons, goal_positions, Tpred) ==
  HungarianSolve(PredictiveCostMatrix(predicted_horizons, goal_positions, Tpred))

InitPredictive ==
  /\ cfg \in ConfigsPredictive
  /\ pc = "predictive"
  /\ k = 0
  /\ count = 0
  /\ _current_states = [i \in Agents(cfg.Ncmd) |-> [pos |-> po(cfg.Ncmd)[i], vel |-> 0]]
  /\ _current_assignment = IdentityAssignment(cfg.Ncmd)
  /\ _reallocation_manager =
       NewPredictiveManager(cfg.reallocation_period, TRUE, cfg.prediction_horizon)
  /\ \E horizons \in [Agents(cfg.Ncmd) -> [0..(cfg.cols - 1) -> Pos]] :
       _generator = [goal |-> pf(cfg.Ncmd), horizon |-> horizons]
  /\ _inputs = None
  /\ _goals = None
  /\ _trajectories = [i \in Agents(cfg.Ncmd) |-> [cols |-> 0, last |-> None]]
  /\ _goal_trajectories = [i \in Agents(cfg.Ncmd) |-> [cols |-> 0, last |-> None]]
  /\ hist = NoHist
  /\ main = Idle /\ rnd = Idle /\ avoider = Idle

\* One call computePredictiveAssignment(current_positions, predicted_horizons,
\* goal_positions, Ts).
CallComputePredictiveAssignment ==
  /\ pc = "predictive"
  /\ pc' = "returned"
  /\ hist' = [hist EXCEPT
        !.solved = TRUE,
        !.cost_matrix = PredictiveCostMatrix(_generator.horizon, original_goals_vec(Ncmd),
                                             _reallocation_manager._prediction_horizon),
        !.solve_out = computePredictiveAssignment(AgentPositions, _generator.horizon,
                                                  original_goals_vec(Ncmd),
                                                  _reallocation_manager._prediction_horizon)]
  /\ UNCHANGED <<cfg, k, count, _current_states, _current_assignment,
                 _reallocation_manager, _generator, _inputs, _goals, _trajectories,
                 _goal_trajectories, others>>

NextPredictive == CallComputePredictiveAssignment

SpecPredictive == InitPredictive /\ [][NextPredictive]_vars

\* round(T_pred / Ts), halves away from zero, for T_pred in half steps.
RoundedStep(prediction_horizon) == (prediction_horizon + 1) \div 2

\* C22: after a predictive solve, for T_pred >= 0, the cost matrix row of
\* every agent i is the distances from column min(k*, cols - 1) of agent i's
\* predicted horizon to the goals, with k* = round(T_pred / Ts), and that
\* column index lies in 0..cols-1.
C22_PredictiveSamplesRoundedStep ==
  pc = "returned" =>
    \A i \in Agents(Ncmd) :
      LET cols == Cardinality(DOMAIN _generator.horizon[i])
          kstar == RoundedStep(cfg.prediction_horizon)
          index == IF kstar < cols - 1 THEN kstar ELSE cols - 1
      IN /\ 0 <= index /\ index <= cols - 1
         /\ hist.cost_matrix[i] =
              [j \in Agents(Ncmd) |->
                 Abs(_generator.horizon[i][index] - original_goals_vec(Ncmd)[j])]

\* ------------------------------------------ the two ways out of updateAssignment
\* A step that is one direct call of updateAssignment.
CallStep == pc = "api" /\ hist'.calls # hist.calls

\* The assignment the manager compares against at a call: the one it stored,
\* or at its first evaluation the caller's.
LastCommitted ==
  IF DOMAIN _reallocation_manager.current_assignment_ = {}
  THEN _current_assignment
  ELSE _reallocation_manager.current_assignment_

\* C23: a call of updateAssignment returns true exactly when t - t_last >= T_r
\* and the assignment it solved differs from the last committed one in some
\* index, whatever the costs; when it returns true the new assignment is the
\* stored one and the caller's, the reallocation count is one more and t_last
\* is the time of the call.
C23_CommitIffDueAndChanged ==
  [][ CallStep =>
        LET mgr == _reallocation_manager
            due == k' - mgr.last_reallocation_time_ >= mgr.reallocation_period_
        IN /\ hist'.ret <=>
                /\ due
                /\ hist'.solved
                /\ \E i \in Agents(Ncmd) : hist'.solve_out[i] # LastCommitted[i]
           /\ hist'.ret =>
                /\ _reallocation_manager'.current_assignment_ = hist'.solve_out
                /\ _current_assignment' = hist'.solve_out
                /\ _reallocation_manager'.reallocation_count_ = mgr.reallocation_count_ + 1
                /\ _reallocation_manager'.last_reallocation_time_ = k'
    ]_vars

\* The first call committed another assignment of three agents that all
\* stand on one cell: every assignment costs the same there.
C23_Witness ==
  /\ pc = "api" /\ hist.calls = 1 /\ hist.ret
  /\ Ncmd = 3
  /\ \A i \in Agents(Ncmd) : AgentPositions[i] = 0
  /\ _current_assignment # IdentityAssignment(Ncmd)
  /\ _reallocation_manager.last_reallocation_time_ = k

C24_ReplanEveryMSteps ==
  [][ /\ (pc = "replan" /\ pc' = "apply") =>
            k % cfg.max_count = 0 /\ hist'.last_replan = k
      /\ (k' = k + 1) =>
            /\ count = k % cfg.max_count
            /\ count \in 0..(cfg.max_count - 1)
            /\ hist.last_replan = k - (k % cfg.max_count)
            /\ _inputs' = _inputs
            /\ \A i \in Agents(Ncmd) : count \in DOMAIN _inputs[i].col
    ]_vars

\* With m = 2, the second column of the inputs of the replan at step 2 has
\* been applied at step 3.
C24_Witness ==
  /\ pc = "tick" /\ cfg.max_count = 2
  /\ k = 4 /\ count = 2
  /\ hist.last_replan = 2
  /\ Len(hist.columns) = 4

\* ------------------------------------------ the rows of the BVC block
\* The distance of pair idx of the block built for agent a (a block of the
\* tick, agent a - 1).
PairDistance(a, idx) ==
  LET pair == avoider.block[a].active_pairs[idx]
  IN Abs(avoider._horizon[a - 1][pair[1]] - avoider._horizon[pair[2]][pair[1]])

\* C26 as stated: under A x <= b, every collision row has -d^(q-1) on its own
\* slack column and zero on the others, and the row of each slack variable
\* bounds it from below by zero (a negative coefficient against the bound 0).
C26_SlackNegativeCoefficient ==
  \A a \in 1..Len(avoider.block) :
    LET n == Len(avoider.block[a].active_pairs)
        slack == avoider.block[a].slack
    IN \A idx \in 1..n :
         /\ \A c \in 1..n :
               slack[idx][c] = IF c = idx THEN -Pow(PairDistance(a, idx), EllipseOrder - 1)
                               ELSE 0
         /\ slack[n + idx][idx] < 0
         /\ avoider.block[a].bin_soft[n + idx] = 0

\* C26, amended: every collision row has +d^(q-1) on its own slack column and
\* zero on the others, and below the collision rows there is one row per
\* slack variable, with 1 on that variable's column, zero elsewhere and the
\* bound 0: the rows read a.x + d^(q-1) * s <= b and s <= 0.
C26_SlackRows ==
  \A a \in 1..Len(avoider.block) :
    LET n == Len(avoider.block[a].active_pairs)
        slack == avoider.block[a].slack
    IN /\ Len(slack) = 2 * n /\ Len(avoider.block[a].bin_soft) = 2 * n
       /\ avoider.block[a].rows = 2 * n
       /\ \A idx \in 1..n :
            /\ \A c \in 1..n :
                  slack[idx][c] = IF c = idx THEN Pow(PairDistance(a, idx), EllipseOrder - 1)
                                  ELSE 0
            /\ \A c \in 1..n : slack[n + idx][c] = IF c = idx THEN 1 ELSE 0
            /\ avoider.block[a].bin_soft[n + idx] = 0

\* The block of agent 0 among three bodies holds two pairs at different,
\* nonzero distances.
C26_Witness ==
  /\ Ncmd = 3 /\ Len(avoider.block) >= 1
  /\ Len(avoider.block[1].active_pairs) = 2
  /\ PairDistance(1, 1) > 0 /\ PairDistance(1, 2) > PairDistance(1, 1)

\* C27: in the block of agent i the pairs are in strictly increasing order
\* of (k, j), step first, so none occurs twice; none has j = i; there is one
\* linearized row per pair, and the row of a pair has a coefficient only on
\* the agent's position at the step of the pair.
C27_OneRowPerPairInOrder ==
  \A a \in 1..Len(avoider.block) :
    LET pairs == avoider.block[a].active_pairs
        diff_rows == avoider.block[a].diff_rows
    IN /\ \A idx \in 1..Len(pairs) : pairs[idx][2] # a - 1
       /\ \A idx \in 1..(Len(pairs) - 1) :
             \/ pairs[idx][1] < pairs[idx + 1][1]
             \/ pairs[idx][1] = pairs[idx + 1][1] /\ pairs[idx][2] < pairs[idx + 1][2]
       /\ Len(diff_rows) = Len(pairs)
       /\ \A idx \in 1..Len(pairs) :
             \A c \in 0..(cfg.k_hor - 1) :
               diff_rows[idx][c] =
                 IF c = pairs[idx][1]
                 THEN avoider._horizon[a - 1][c] - avoider._horizon[pairs[idx][2]][c]
                 ELSE 0

\* The block of agent 1 among three bodies holds pairs with both other
\* bodies at both steps of the horizon, at nonzero distances.
C27_Witness ==
  /\ Ncmd = 3 /\ cfg.k_hor = 2 /\ Len(avoider.block) >= 2
  /\ avoider.block[2].active_pairs = << <<0, 0>>, <<0, 2>>, <<1, 0>>, <<1, 2>> >>
  /\ \A idx \in 1..4 : PairDistance(2, idx) > 0

\* ------------------------------------- the horizons within a replan tick
\* The replan ticks of the Generator as far as the predicted horizons go.
\* The avoider's _horizon refers to the Generator's horizons of the previous
\* tick (_oldhorizon); within a tick the agents are solved one by one, in any
\* order: the collision block of the agent is built, its QP is solved (any
\* new horizon can come out) and the new horizon is stored in _newhorizon;
\* when every agent is solved the new horizons replace the old ones.
MaxTicks == 2                     \* replan ticks modelled

SnapshotAgents == {2, 3}

ConfigsSnapshot ==
  [ Ncmd : SnapshotAgents,
    K : {MaxK},
    max_count : {CHOOSE m \in MaxCountValues : TRUE},
    json_reallocation_enabled : {"false"},
    reallocation_period : {CHOOSE p \in PeriodValues : \A q \in PeriodValues : p <= q},
    variant : {"inline"},
    tie : {"first"},
    goal_tolerance : {0},
    k_hor : {CHOOSE c \in KHorValues : \A e \in KHorValues : c <= e},
    rmin : EllipseRminValues ]

\* The horizon written in place: the agents solved later in the tick see it.
M_WriteHorizon(generator, agent_id, new_horizon) ==
  [generator EXCEPT !._newhorizon[agent_id] = new_horizon,
                    !._oldhorizon[agent_id] = new_horizon]

\* The horizon an agent's solve produced is kept apart until the tick ends.
WriteHorizon(generator, agent_id, new_horizon) ==
  [generator EXCEPT !._newhorizon[agent_id] = new_horizon]

\* _horizon of the avoider: a reference to the horizons of the previous tick.
AvoiderHorizon == _generator._oldhorizon

InitSnapshot ==
  /\ cfg \in ConfigsSnapshot
  /\ pc = "solve"
  /\ k = 0
  /\ count = cfg.max_count
  /\ _current_states = [i \in Agents(cfg.Ncmd) |-> [pos |-> po(cfg.Ncmd)[i], vel |-> 0]]
  /\ _current_assignment = IdentityAssignment(cfg.Ncmd)
  /\ _reallocation_manager = NullManager
  /\ \E horizon \in [Agents(cfg.Ncmd) -> [0..(cfg.k_hor - 1) -> 0..HorizonMax]] :
       /\ _generator = [goal |-> pf(cfg.Ncmd), horizon |-> << >>,
                        _oldhorizon |-> horizon, _newhorizon |-> horizon]
       /\ hist = [NoHist EXCEPT !.snapshot = horizon]
  /\ _inputs = None
  /\ _goals = None
  /\ _trajectories = [i \in Agents(cfg.Ncmd) |-> [cols |-> 0, last |-> None]]
  /\ _goal_trajectories = [i \in Agents(cfg.Ncmd) |-> [cols |-> 0, last |-> None]]
  /\ avoider = [_ellipse |-> [rmin |-> cfg.rmin], block |-> << >>]
  /\ main = Idle /\ rnd = Idle

\* The solve of one agent that is not solved yet in this tick.
SolveAgent ==
  /\ pc = "solve" /\ k < MaxTicks
  /\ \E agent_id \in Agents(Ncmd) \ DOMAIN avoider.block :
       /\ avoider' = [avoider EXCEPT !.block =
             [j \in DOMAIN @ \cup {agent_id} |->
                IF j = agent_id
                THEN buildBVCConstraintForAgent(AvoiderHorizon, avoider._ellipse.rmin,
                                                agent_id)
                ELSE @[j]]]
       /\ \E new_horizon \in [0..(cfg.k_hor - 1) -> 0..HorizonMax] :
            _generator' = WriteHorizon(_generator, agent_id, new_horizon)
  /\ UNCHANGED <<cfg, pc, k, count, _current_states, _current_assignment,
                 _reallocation_manager, _inputs, _goals, _trajectories, hist,
                 _goal_trajectories, main, rnd>>

\* The end of the tick: the new horizons become the horizons of the
\* previous tick.
PublishHorizons ==
  /\ pc = "solve" /\ k < MaxTicks
  /\ DOMAIN avoider.block = Agents(Ncmd)
  /\ _generator' = [_generator EXCEPT !._oldhorizon = _generator._newhorizon]
  /\ hist' = [hist EXCEPT !.snapshot = _generator._newhorizon]
  /\ avoider' = [avoider EXCEPT !.block = << >>]
  /\ k' = k + 1
  /\ UNCHANGED <<cfg, pc, count, _current_states, _current_assignment,
                 _reallocation_manager, _inputs, _goals, _trajectories,
                 _goal_trajectories, main, rnd>>

NextSnapshot == SolveAgent \/ PublishHorizons

SpecSnapshot == InitSnapshot /\ [][NextSnapshot]_vars

\* The bodies within 3 * rmin of agent i at a step, in given horizons.
CloseIn(horizons, i) ==
  { <<c, j>> \in (0..(cfg.k_hor - 1)) \X Agents(Ncmd) :
      j # i /\ Abs(horizons[i][c] - horizons[j][c]) < 3 * avoider._ellipse.rmin }

\* C25: at every point of a tick, the block built for each agent solved so
\* far is the one of the horizons as the previous tick left them: its pairs
\* are the bodies close to the agent in those horizons and its rows carry
\* the differences and distances of those horizons, whichever agents were
\* solved before it and whatever horizons they produced.
C25_ConstraintsFromPreviousTick ==
  \A i \in DOMAIN avoider.block :
    LET block == avoider.block[i]
        pairs == block.active_pairs
    IN /\ {pairs[l] : l \in DOMAIN pairs} = CloseIn(hist.snapshot, i)
       /\ Len(pairs) = Cardinality(CloseIn(hist.snapshot, i))
       /\ \A l \in DOMAIN pairs :
             /\ block.diff_rows[l][pairs[l][1]]
                  = hist.snapshot[i][pairs[l][1]] - hist.snapshot[pairs[l][2]][pairs[l][1]]
             /\ block.slack[l][l]
                  = Abs(hist.snapshot[i][pairs[l][1]] - hist.snapshot[pairs[l][2]][pairs[l][1]])

\* In the second tick both of two agents are solved; each produced a horizon
\* other than its previous one, the two are close in the previous horizons
\* and far apart in the new ones, and both blocks hold the pair.
C25_Witness ==
  /\ Ncmd = 2 /\ k = 1
  /\ DOMAIN avoider.block = Agents(Ncmd)
  /\ \A i \in Agents(Ncmd) : _generator._newhorizon[i] # hist.snapshot[i]
  /\ CloseIn(hist.snapshot, 0) # {} /\ CloseIn(_generator._newhorizon, 0) = {}
  /\ \A i \in Agents(Ncmd) : avoider.block[i].rows = 2

\* --------------------------------------- run_comprehensive_experiments.sh
\* The experiment script as far as reallocation_log.csv goes.  Each run of
\* run_single_experiment prepares an output directory and a configuration,
\* runs the program in cpp/bin and copies cpp/bin/reallocation_log.csv, if
\* that file exists, into the output directory.  The program writes the file
\* (truncating it) exactly when it constructs a reallocation manager.  A log
\* is named by the run that wrote it: run r > 0, -1 for an earlier
\* invocation of the script, 0 for no file.
MaxRuns == 5                      \* experiment runs of one invocation

InitExperiments ==
  /\ \E left_behind \in {0, -1} :
       main = [at |-> "script", run |-> 0, reallocation_enabled |-> FALSE,
               bin_log |-> left_behind, output |-> << >>]
  /\ cfg = Idle /\ pc = Idle /\ k = 0 /\ count = 0
  /\ _current_states = Idle /\ _current_assignment = Idle
  /\ _reallocation_manager = NullManager /\ _generator = Idle
  /\ _inputs = None /\ _goals = None
  /\ _trajectories = Idle /\ _goal_trajectories = Idle
  /\ hist = NoHist /\ rnd = Idle /\ avoider = Idle

\* run_single_experiment up to the simulation: the output directory and the
\* configuration of the run, with "reallocation_enabled" as the caller's
\* modifications set it.
PrepareRun ==
  /\ main.at = "script" /\ main.run < MaxRuns
  /\ \E enabled \in BOOLEAN :
       main' = [main EXCEPT !.at = "run", !.run = @ + 1,
                            !.reallocation_enabled = enabled]
  /\ UNCHANGED <<simulator, rnd, avoider>>

\* cd cpp/bin; ./run: Simulator::Simulator constructs the manager, which
\* opens reallocation_log.csv in the working directory, only when
\* reallocation is enabled.
RunProgram ==
  /\ main.at = "run"
  /\ main' = [main EXCEPT
        !.at = "copy",
        !.bin_log = IF main.reallocation_enabled THEN main.run ELSE @]
  /\ UNCHANGED <<simulator, rnd, avoider>>

\* if [ -f cpp/bin/reallocation_log.csv ]; then cp it to the output directory
CopyLog ==
  /\ main.at = "copy"
  /\ main' = [main EXCEPT
        !.at = "script",
        !.output = Append(@, [reallocation_enabled |-> main.reallocation_enabled,
                              reallocation_log |-> main.bin_log])]
  /\ UNCHANGED <<simulator, rnd, avoider>>

NextExperiments == PrepareRun \/ RunProgram \/ CopyLog

SpecExperiments == InitExperiments /\ [][NextExperiments]_vars

\* C29: the log in the output directory of every finished run, if there is
\* one, was written by that run, and the output directory of a run with
\* reallocation disabled holds no log.
C29_LogIsOfItsRun ==
  \A r \in 1..Len(main.output) :
    /\ main.output[r].reallocation_log \in {0, r}
    /\ ~main.output[r].reallocation_enabled => main.output[r].reallocation_log = 0

\* ------------------------------------------- the size of a reallocation
\* C30: once an event was committed, the latest event wrote at least two
\* rows, for at least two different agents, and the log holds at least two
\* rows per event: no event changes the goal of exactly one agent.
C30_EventMovesAtLeastTwo ==
  (ReallocationEnabled /\ _reallocation_manager.reallocation_count_ > 0) =>
    LET log == _reallocation_manager.log_file_
    IN /\ Cardinality(log.event) >= 2
       /\ Cardinality({row.agent_id : row \in log.event}) >= 2
       /\ log.rows >= 2 * _reallocation_manager.reallocation_count_

\* A second event has just moved all three of three agents to other goals.
C30_Witness ==
  /\ JustCommitted /\ pc = "replan"
  /\ Ncmd = 3
  /\ _reallocation_manager.reallocation_count_ = 2
  /\ Cardinality(_reallocation_manager.log_file_.event) = 3
  /\ IsPermutation(_current_assignment, Ncmd)

====
